---- MODULE Spec2Model ----
(***************************************************************************)
(* Access-control core of hustle-starter: the tRPC guard chain             *)
(* (lib/trpc.ts, lib/context.ts), the membership and API-key routers, and  *)
(* the API-key middleware with its per-key rate limit (lib/api-key-auth.ts)*)
(***************************************************************************)
EXTENDS Integers, Sequences, FiniteSets, TLC

\* ---------------------------------------------------------------- bounds
\* number of keys apiKeys.create may insert
MaxKeys == 1
\* number of clock advances
MaxTicks == 3
\* API-key requests issued per window while create/revoke run beside them
MaxKeyRequests == 2
\* API-key requests issued per window against the /stats endpoint
MaxRateRequests == 11
\* events the billing provider sends
MaxEvents == 3
\* events sent when their metadata and prices vary
MaxPayloads == 2

\* ------------------------------------------------------------ value sets
Users == {"u1", "u2"}
OrgIds == {"t1", "t2"}
Roles == {"owner", "admin", "member", "viewer"}
NoSession == "null"
NoHeader == "null"
NullTime == -1
\* x-organization-id values a client can send: absent, empty, an existing
\* tenant, a tenant that does not exist
OrgHeaders == {NoHeader, ""} \cup OrgIds \cup {"tX"}
Sessions == Users \cup {NoSession}
\* requests in flight together: two tRPC calls, two API-key calls
RpcIds == {"a", "b"}
HttpIds == {"x", "y"}
\* two webhook deliveries
HookIds == {"p", "q"}

VARIABLES
  organization,      \* table organization: the ids of the existing rows
  organizationUser,  \* table organization_user: set of rows
  apiKey,            \* table api_key: set of rows
  now,               \* wall clock, in milliseconds
  rpc,               \* tRPC requests: RpcIds -> request record
  http,              \* API-key HTTP requests: HttpIds -> request record
  served,            \* per key id: handler executions in the current window
  organizationRow,   \* table organization: slug and Stripe columns per id
  organizationInvite,\* table organization_invite: set of rows
  webhookEvent,      \* table webhook_event: set of rows
  hook,              \* webhook deliveries: HookIds -> delivery record
  stripe             \* the billing provider: subscription and events sent

vars == <<organization, organizationUser, apiKey, now, rpc, http, served,
          organizationRow, organizationInvite, webhookEvent, hook, stripe>>
\* the tables the tRPC procedures write
db == <<organization, organizationUser, apiKey, organizationRow,
        organizationInvite>>
\* the webhook endpoint's table and requests, and the provider
hooks == <<webhookEvent, hook, stripe>>

\* ------------------------------------------------------- context resolver
\* createContext: the membership row is looked up only when there is a
\* session and a non-empty header; `const [membership] = ...` takes the first
\* row of the result, any of them when several match.
createContext(session, orgId) ==
  LET rows == IF session # NoSession /\ orgId \notin {NoHeader, ""}
              THEN {m \in organizationUser :
                      m.userId = session /\ m.organizationId = orgId}
              ELSE {}
      access == IF rows = {} THEN {{}}
                ELSE {{[organizationId |-> m.organizationId, role |-> m.role]} :
                        m \in rows}
  IN {[session |-> session, organizationId |-> orgId,
       organizationAccess |-> a] : a \in access}

\* ------------------------------------------------------------ guard chain
\* each middleware yields "next" or the code of the TRPCError it throws
publicProcedure(ctx) == "next"

protectedProcedure(ctx) ==
  IF ctx.session = NoSession THEN "UNAUTHORIZED" ELSE "next"

orgProcedureLax(ctx) ==
  LET p == protectedProcedure(ctx)
  IN IF p # "next" THEN p
     ELSE IF ctx.organizationId \in {NoHeader, ""} THEN "BAD_REQUEST"
     ELSE "next"

orgProcedureAccessFirst(ctx) ==
  LET p == protectedProcedure(ctx)
  IN IF p # "next" THEN p
     ELSE IF ctx.organizationAccess = {} THEN "FORBIDDEN"
     ELSE IF ctx.organizationId \in {NoHeader, ""} THEN "BAD_REQUEST"
     ELSE "next"

orgProcedure(ctx) ==
  LET p == protectedProcedure(ctx)
  IN IF p # "next" THEN p
     ELSE IF ctx.organizationId \in {NoHeader, ""} THEN "BAD_REQUEST"
     ELSE IF ctx.organizationAccess = {} THEN "FORBIDDEN"
     ELSE "next"

\* `const { role } = ctx.organizationAccess`; after orgProcedure the access
\* is never null, and without one there is no role to read
RoleOf(ctx) ==
  IF ctx.organizationAccess = {} THEN "undefined"
  ELSE (CHOOSE a \in ctx.organizationAccess : TRUE).role

adminProcedureMember(ctx) ==
  LET p == orgProcedure(ctx)
  IN IF p # "next" THEN p
     ELSE IF RoleOf(ctx) \notin {"admin", "owner", "member"} THEN "FORBIDDEN"
     ELSE "next"

adminProcedureRoleFirst(ctx) ==
  IF RoleOf(ctx) # "admin" /\ RoleOf(ctx) # "owner" THEN "FORBIDDEN"
  ELSE orgProcedure(ctx)

adminProcedure(ctx) ==
  LET p == orgProcedure(ctx)
  IN IF p # "next" THEN p
     ELSE IF RoleOf(ctx) # "admin" /\ RoleOf(ctx) # "owner" THEN "FORBIDDEN"
     ELSE "next"

ownerProcedureAdmin(ctx) ==
  LET p == orgProcedure(ctx)
  IN IF p # "next" THEN p
     ELSE IF RoleOf(ctx) # "owner" /\ RoleOf(ctx) # "admin" THEN "FORBIDDEN"
     ELSE "next"

ownerProcedure(ctx) ==
  LET p == orgProcedure(ctx)
  IN IF p # "next" THEN p
     ELSE IF RoleOf(ctx) # "owner" THEN "FORBIDDEN"
     ELSE "next"

\* the guard each procedure of the routers is declared with
ProcLevel ==
  [healthCheck |-> "public", me |-> "protected",
   membersList |-> "org", membersUpdateRole |-> "admin",
   membersRemove |-> "admin", deleteOrganization |-> "owner",
   apiKeysCreate |-> "admin", apiKeysRevoke |-> "admin",
   createOrganization |-> "protected", updateOrganization |-> "admin",
   cancelSubscription |-> "owner", completeInviteAcceptance |-> "public",
   apiKeysUpdateUsage |-> "org", invitesRevoke |-> "admin",
   invitesResend |-> "admin"]

Guard(proc, ctx) ==
  CASE ProcLevel[proc] = "public" -> publicProcedure(ctx)
    [] ProcLevel[proc] = "protected" -> protectedProcedure(ctx)
    [] ProcLevel[proc] = "org" -> orgProcedure(ctx)
    [] ProcLevel[proc] = "admin" -> adminProcedure(ctx)
    [] ProcLevel[proc] = "owner" -> ownerProcedure(ctx)

\* ------------------------------------------------------------- API keys
KeyIds == 0..MaxKeys

\* generateApiKey: `${prefix}_${nanoid(32)}`; n stands for the random part
FullKey(n) == <<"sk_live", n>>

\* digests are kept symbolic: the algorithm, its parameters, the preimage.
\* A bcrypt string ("$2a$10$...") is never a SHA-256 hex digest.
bcryptHashSync(key, rounds) == <<"bcrypt", rounds, key>>
sha256Hex(key) == <<"sha256", key>>

generateApiKey(n) ==
  [key |-> FullKey(n), keyHash |-> bcryptHashSync(FullKey(n), 10),
   keyPrefix |-> "sk_live"]

\* rate-limit window strings are character sequences, as in "5m"
Digits == [c \in {"0", "1", "2", "3", "4", "5", "6", "7", "8", "9"} |->
             CASE c = "0" -> 0 [] c = "1" -> 1 [] c = "2" -> 2 [] c = "3" -> 3
               [] c = "4" -> 4 [] c = "5" -> 5 [] c = "6" -> 6 [] c = "7" -> 7
               [] c = "8" -> 8 [] c = "9" -> 9]
multipliers == [s |-> 1000, m |-> 60000, h |-> 3600000, d |-> 86400000]

RECURSIVE parseInt(_)
parseInt(digits) ==
  IF digits = <<>> THEN 0
  ELSE 10 * parseInt(SubSeq(digits, 1, Len(digits) - 1))
       + Digits[digits[Len(digits)]]

\* parseWindow: /^(\d+)([smhd])$/, -1 for the thrown "Invalid window format"
parseWindow(window) ==
  IF /\ Len(window) >= 2
     /\ \A i \in 1..(Len(window) - 1) : window[i] \in DOMAIN Digits
     /\ window[Len(window)] \in DOMAIN multipliers
  THEN parseInt(SubSeq(window, 1, Len(window) - 1))
       * multipliers[window[Len(window)]]
  ELSE -1

\* GET /api/v1/organizations/stats: rateLimit {requests: 10, window: "5m"}
StatsRateLimit == [requests |-> 10, window |-> <<"5", "m">>]
WindowMs == parseWindow(StatsRateLimit.window)
\* the clock advances by half a window
TickMs == WindowMs \div 2
WindowOf(t) == t \div WindowMs

\* expiresAt: z.date().optional()
ExpiresAtInputs == {NullTime, WindowMs}

\* ------------------------------------------------------------ table rows
\* table user: the email column
email == [u \in Users |-> <<u, "@example.com">>]

\* invites.create / resend: an invite lasts 7 * 24 * 60 * 60 * 1000 ms
InviteTtl == 7 * multipliers["d"]

\* slugs a client can ask for in createOrganization
Slugs == {"acme", "beta"}

\* an organization row as createUserWithOrganization inserts it: no Stripe
\* ids, no subscription status, plan_tier at its default; the client names
\* the organization after its slug
NewOrganization(slug) ==
  [slug |-> slug, name |-> slug, stripeCustomerId |-> "null",
   stripeSubscriptionId |-> "null", subscriptionStatus |-> "null",
   planTier |-> "free"]

\* the columns of an id no row carries
NoOrganization ==
  [slug |-> "null", name |-> "null", stripeCustomerId |-> "null",
   stripeSubscriptionId |-> "null", subscriptionStatus |-> "null",
   planTier |-> "null"]

\* UPDATE organization SET ... WHERE id = t: "keep" leaves a column alone
UpdateOrganization(t, set) ==
  [organizationRow EXCEPT ![t] =
     [c \in DOMAIN organizationRow[t] |->
        IF c \in DOMAIN set /\ set[c] # "keep" THEN set[c]
        ELSE organizationRow[t][c]]]

\* SELECT id FROM organization WHERE stripe_subscription_id = ...
OrgsOfSubscription(subscriptionId) ==
  {t \in organization :
     organizationRow[t].stripeSubscriptionId = subscriptionId}

\* PLANS: free and enterprise have no price, basic and pro take theirs from
\* STRIPE_BASIC_PRICE_ID and STRIPE_PRO_PRICE_ID
PLANS == [free |-> [priceId |-> "null"], basic |-> [priceId |-> "price_basic"],
          pro |-> [priceId |-> "price_pro"], enterprise |-> [priceId |-> "null"]]

\* getPlanByPriceId: the plan ids carrying this price; {} for null
getPlanByPriceId(priceId) ==
  {planId \in DOMAIN PLANS :
     PLANS[planId].priceId # "null" /\ PLANS[planId].priceId = priceId}

\* --------------------------------------------------------- tRPC requests
NoInput == [userId |-> "null", role |-> "null", keyId |-> -1,
            expiresAt |-> NullTime, slug |-> "null", token |-> "null",
            inviteId |-> "null", name |-> "null"]

\* the tokens of the invites sent
Tokens == {"k1"}
\* invite ids a client can name: an invite row's id is written as its token
InviteIds == {"k1", "k2"}
\* names a client can give an organization in updateOrganization
Names == {"renamed"}

\* the zod input schema of each procedure
Inputs(proc) ==
  CASE proc = "membersUpdateRole" ->
         {[NoInput EXCEPT !.userId = u, !.role = ro] :
            u \in Users, ro \in {"admin", "member", "viewer"}}
    [] proc = "membersRemove" ->
         {[NoInput EXCEPT !.userId = u] : u \in Users}
    [] proc = "apiKeysCreate" ->
         {[NoInput EXCEPT !.expiresAt = e] : e \in ExpiresAtInputs}
    [] proc = "apiKeysRevoke" ->
         {[NoInput EXCEPT !.keyId = k] : k \in KeyIds}
    [] proc = "createOrganization" ->
         {[NoInput EXCEPT !.slug = sl] : sl \in Slugs}
    [] proc = "completeInviteAcceptance" ->
         {[NoInput EXCEPT !.token = k, !.userId = u] :
            k \in Tokens, u \in Users}
    [] proc = "apiKeysUpdateUsage" ->
         {[NoInput EXCEPT !.keyId = k] : k \in KeyIds}
    [] proc \in {"invitesRevoke", "invitesResend"} ->
         {[NoInput EXCEPT !.inviteId = i] : i \in InviteIds}
    [] proc = "updateOrganization" ->
         {[NoInput EXCEPT !.name = n] : n \in Names}
    [] OTHER -> {NoInput}

IdleRpc == [pc |-> "idle", proc |-> "healthCheck", input |-> NoInput,
            session |-> NoSession, organizationId |-> NoHeader,
            organizationAccess |-> {}, result |-> "pending",
            bodyRan |-> FALSE, invite |-> {}]

CtxOf(q) == [session |-> q.session, organizationId |-> q.organizationId,
             organizationAccess |-> q.organizationAccess]

GuardErrors == {"UNAUTHORIZED", "BAD_REQUEST", "FORBIDDEN"}

\* ids nanoid() can still return: those no row carries
FreeKeyIds == (KeyIds \ {0}) \ {k.id : k \in apiKey}

\* a request arrives and createContext resolves session, header, membership;
\* apiKeys.create is called only while an id is left for the new row
RpcCreateContext(r, procs, sessions, headers) ==
  /\ rpc[r].pc = "idle"
  /\ \E proc \in procs, s \in sessions, h \in headers :
       \E input \in Inputs(proc), ctx \in createContext(s, h) :
         /\ proc = "apiKeysCreate" => FreeKeyIds # {}
         /\ rpc' = [rpc EXCEPT ![r] =
                      [pc |-> "guard", proc |-> proc, input |-> input,
                       session |-> ctx.session,
                       organizationId |-> ctx.organizationId,
                       organizationAccess |-> ctx.organizationAccess,
                       result |-> "pending", bodyRan |-> FALSE,
                       invite |-> {}]]
  /\ UNCHANGED <<db, now, http, served, hooks>>

\* rows of organization_user a members.* statement addresses
TargetRows(q) ==
  {m \in organizationUser :
     m.userId = q.input.userId /\ m.organizationId = q.organizationId}

Finish(r, res) ==
  rpc' = [rpc EXCEPT ![r].pc = "done", ![r].result = res, ![r].bodyRan = TRUE]

\* members.updateRole / members.remove, first statement: read the current
\* membership and refuse when it is the owner's
membersCheckOwnerSkipped(r) ==
  /\ rpc' = [rpc EXCEPT ![r].pc = "write", ![r].bodyRan = TRUE]
  /\ UNCHANGED db

membersCheckOwner(r) ==
  /\ \E cur \in (IF TargetRows(rpc[r]) = {} THEN {"none"}
                 ELSE {m.role : m \in TargetRows(rpc[r])}) :
       IF cur = "owner"
       THEN Finish(r, "INTERNAL_SERVER_ERROR")
       ELSE rpc' = [rpc EXCEPT ![r].pc = "write", ![r].bodyRan = TRUE]
  /\ UNCHANGED db

\* deleteOrganization: the foreign keys cascade to the tenant's rows
deleteOrganization(r) ==
  /\ organization' = organization \ {rpc[r].organizationId}
  /\ organizationUser' =
       {m \in organizationUser : m.organizationId # rpc[r].organizationId}
  /\ apiKey' = {k \in apiKey : k.organizationId # rpc[r].organizationId}
  /\ organizationInvite' =
       {i \in organizationInvite : i.organizationId # rpc[r].organizationId}
  /\ UNCHANGED organizationRow
  /\ Finish(r, "OK")

\* queries: healthCheck, me, members.list
Query(r) == Finish(r, "OK") /\ UNCHANGED db

\* ------------------------------------------------------ API-key router
\* apiKeys.create: INSERT of the generated key, isActive "true"
apiKeysCreate(r) ==
  /\ FreeKeyIds # {}
  /\ LET n == CHOOSE i \in FreeKeyIds : \A j \in FreeKeyIds : i <= j
     IN apiKey' = apiKey \cup
          {[id |-> n, organizationId |-> rpc[r].organizationId,
            keyHash |-> generateApiKey(n).keyHash, isActive |-> "true",
            expiresAt |-> rpc[r].input.expiresAt, revokedAt |-> NullTime,
            lastUsedAt |-> NullTime]}
  /\ Finish(r, "OK")
  /\ UNCHANGED <<organization, organizationUser, organizationRow,
                  organizationInvite>>

\* apiKeys.revoke: UPDATE ... WHERE id, organizationId, isActive = "true"
RevokeRowsAnyTenant(q) ==
  {k \in apiKey : k.id = q.input.keyId /\ k.isActive = "true"}

RevokeRows(q) ==
  {k \in apiKey : k.id = q.input.keyId
                  /\ k.organizationId = q.organizationId
                  /\ k.isActive = "true"}

apiKeysRevoke(r) ==
  /\ apiKey' = {IF k \in RevokeRows(rpc[r])
                THEN [k EXCEPT !.isActive = "false", !.revokedAt = now]
                ELSE k : k \in apiKey}
  /\ Finish(r, IF RevokeRows(rpc[r]) = {} THEN "INTERNAL_SERVER_ERROR"
               ELSE "OK")
  /\ UNCHANGED <<organization, organizationUser, organizationRow,
                  organizationInvite>>

\* ---------------------------------------- organizations, billing, invites
\* createOrganization, first statement: is the slug taken?
createOrganization(r) ==
  /\ IF \E t \in organization : organizationRow[t].slug = rpc[r].input.slug
     THEN Finish(r, "INTERNAL_SERVER_ERROR")
     ELSE rpc' = [rpc EXCEPT ![r].pc = "write", ![r].bodyRan = TRUE]
  /\ UNCHANGED db

\* updateOrganization: UPDATE organization SET ...input WHERE id =
\* ctx.organizationId; of the input's columns organizationRow holds the name
updateOrganization(r) ==
  /\ organizationRow' =
       IF rpc[r].organizationId \in organization
       THEN UpdateOrganization(rpc[r].organizationId,
                               [name |-> rpc[r].input.name])
       ELSE organizationRow
  /\ Finish(r, "OK")
  /\ UNCHANGED <<organization, organizationUser, apiKey, organizationInvite>>

\* apiKeys.updateUsage: UPDATE ... SET lastUsedAt WHERE id, organizationId,
\* isActive = "true"; it answers success whatever the number of rows
apiKeysUpdateUsage(r) ==
  /\ apiKey' = {IF k \in RevokeRows(rpc[r])
                THEN [k EXCEPT !.lastUsedAt = now]
                ELSE k : k \in apiKey}
  /\ Finish(r, "OK")
  /\ UNCHANGED <<organization, organizationUser, organizationRow,
                  organizationInvite>>

\* invites.revoke: DELETE ... WHERE id, organizationId, acceptedAt IS NULL
\* RETURNING id
RevokeInviteRows(q) ==
  {i \in organizationInvite : i.id = q.input.inviteId
                              /\ i.organizationId = q.organizationId
                              /\ i.acceptedAt = NullTime}

invitesRevoke(r) ==
  /\ organizationInvite' = organizationInvite \ RevokeInviteRows(rpc[r])
  /\ Finish(r, IF RevokeInviteRows(rpc[r]) = {} THEN "INTERNAL_SERVER_ERROR"
               ELSE "OK")
  /\ UNCHANGED <<organization, organizationUser, apiKey, organizationRow>>

\* invites.resend, first statement: SELECT ... WHERE id, organizationId;
\* an invite that is not there or was accepted ends the call, one that has
\* not expired is sent again as it is
ResendRows(q) ==
  {i \in organizationInvite : i.id = q.input.inviteId
                              /\ i.organizationId = q.organizationId}

invitesResend(r) ==
  /\ IF ResendRows(rpc[r]) = {}
     THEN Finish(r, "INTERNAL_SERVER_ERROR")
     ELSE \E invite \in ResendRows(rpc[r]) :
            IF invite.acceptedAt # NullTime
            THEN Finish(r, "INTERNAL_SERVER_ERROR")
            ELSE IF invite.expiresAt < now
            THEN rpc' = [rpc EXCEPT ![r].pc = "write", ![r].bodyRan = TRUE,
                                   ![r].invite = {invite}]
            ELSE Finish(r, "OK")
  /\ UNCHANGED db

\* cancelSubscription, first statement: the tenant's subscription id
cancelSubscription(r) ==
  /\ IF \/ rpc[r].organizationId \notin organization
        \/ organizationRow[rpc[r].organizationId].stripeSubscriptionId = "null"
     THEN Finish(r, "INTERNAL_SERVER_ERROR")
     ELSE rpc' = [rpc EXCEPT ![r].pc = "write", ![r].bodyRan = TRUE]
  /\ UNCHANGED db

\* completeInviteAcceptance, the reads of the transaction: the invite of
\* the token, the user, the user's membership in the invite's tenant
InviteRows(q) == {i \in organizationInvite : i.token = q.input.token}

completeInviteAcceptance(r) ==
  /\ IF InviteRows(rpc[r]) = {}
     THEN Finish(r, "INTERNAL_SERVER_ERROR")
     ELSE \E invite \in InviteRows(rpc[r]) :
            IF \/ invite.acceptedAt # NullTime
               \/ invite.expiresAt < now
               \/ email[rpc[r].input.userId] # invite.email
               \/ \E m \in organizationUser :
                    /\ m.organizationId = invite.organizationId
                    /\ m.userId = rpc[r].input.userId
            THEN Finish(r, "INTERNAL_SERVER_ERROR")
            ELSE rpc' = [rpc EXCEPT ![r].pc = "write", ![r].bodyRan = TRUE,
                                   ![r].invite = {invite}]
  /\ UNCHANGED db

\* the middleware chain runs, and on "next" the resolver's first statement
RpcCall(r) ==
  /\ rpc[r].pc = "guard"
  /\ LET g == Guard(rpc[r].proc, CtxOf(rpc[r]))
     IN IF g # "next"
        THEN /\ rpc' = [rpc EXCEPT ![r].pc = "done", ![r].result = g]
             /\ UNCHANGED db
        ELSE CASE rpc[r].proc \in {"membersUpdateRole", "membersRemove"} ->
                    membersCheckOwner(r)
               [] rpc[r].proc = "deleteOrganization" -> deleteOrganization(r)
               [] rpc[r].proc = "apiKeysCreate" -> apiKeysCreate(r)
               [] rpc[r].proc = "apiKeysRevoke" -> apiKeysRevoke(r)
               [] rpc[r].proc = "createOrganization" -> createOrganization(r)
               [] rpc[r].proc = "updateOrganization" -> updateOrganization(r)
               [] rpc[r].proc = "apiKeysUpdateUsage" -> apiKeysUpdateUsage(r)
               [] rpc[r].proc = "invitesRevoke" -> invitesRevoke(r)
               [] rpc[r].proc = "invitesResend" -> invitesResend(r)
               [] rpc[r].proc = "cancelSubscription" -> cancelSubscription(r)
               [] rpc[r].proc = "completeInviteAcceptance" ->
                    completeInviteAcceptance(r)
               [] OTHER -> Query(r)
  /\ UNCHANGED <<now, http, served, hooks>>

\* members.updateRole, second statement: UPDATE ... SET role
membersUpdateRoleKept(r) ==
  /\ Finish(r, "OK")
  /\ UNCHANGED <<organization, organizationUser, organizationRow,
                  organizationInvite>>

membersUpdateRole(r) ==
  /\ organizationUser' =
       {IF m \in TargetRows(rpc[r]) THEN [m EXCEPT !.role = rpc[r].input.role]
        ELSE m : m \in organizationUser}
  /\ Finish(r, "OK")
  /\ UNCHANGED <<organization, organizationRow, organizationInvite>>

\* members.remove, second statement: DELETE ... RETURNING id
membersRemove(r) ==
  /\ organizationUser' = organizationUser \ TargetRows(rpc[r])
  /\ Finish(r, IF TargetRows(rpc[r]) = {} THEN "INTERNAL_SERVER_ERROR"
               ELSE "OK")
  /\ UNCHANGED <<organization, organizationRow, organizationInvite>>

\* a membership row; n tells the rows of one user in one tenant apart
Membership(t, u, n, role) ==
  [id |-> <<t, u, n>>, organizationId |-> t, userId |-> u, role |-> role]

\* createOrganization, the transaction of createUserWithOrganization: the
\* organization row, then the caller's membership as owner; the unique
\* slug fails the insert when the slug was taken meanwhile
createUserWithOrganization(r) ==
  IF \/ \E t \in organization : organizationRow[t].slug = rpc[r].input.slug
     \/ OrgIds \ organization = {}
  THEN /\ Finish(r, "INTERNAL_SERVER_ERROR")
       /\ UNCHANGED <<organization, organizationUser, organizationRow,
                       organizationInvite>>
  ELSE LET newOrg == CHOOSE t \in OrgIds \ organization : TRUE
       IN /\ organization' = organization \cup {newOrg}
          /\ organizationRow' =
               [organizationRow EXCEPT
                  ![newOrg] = NewOrganization(rpc[r].input.slug)]
          /\ organizationUser' = organizationUser \cup
               {Membership(newOrg, rpc[r].session, 0, "owner")}
          /\ Finish(r, "OK")
          /\ UNCHANGED organizationInvite

\* cancelSubscription: cancel_at_period_end at the provider, which refuses
\* a subscription that has ended, then UPDATE ... SET subscriptionStatus
cancelSubscriptionUpdate(r) ==
  /\ IF stripe.status \notin {"active", "past_due"}
     THEN /\ Finish(r, "INTERNAL_SERVER_ERROR")
          /\ UNCHANGED organizationRow
     ELSE /\ organizationRow' =
               IF rpc[r].organizationId \in organization
               THEN UpdateOrganization(rpc[r].organizationId,
                      [subscriptionStatus |-> "canceled"])
               ELSE organizationRow
          /\ Finish(r, "OK")
  /\ UNCHANGED <<organization, organizationUser, organizationInvite>>

\* completeInviteAcceptance, the writes of the transaction and its commit:
\* INSERT INTO organization_user, UPDATE organization_invite. Nothing but
\* the foreign key to the organization can fail the insert.
completeInviteAcceptanceCommit(r) ==
  LET invite == CHOOSE i \in rpc[r].invite : TRUE
      userId == rpc[r].input.userId
      rows == {m \in organizationUser :
                 m.organizationId = invite.organizationId
                 /\ m.userId = userId}
  IN IF invite.organizationId \notin organization
     THEN /\ Finish(r, "INTERNAL_SERVER_ERROR")
          /\ UNCHANGED <<organization, organizationUser, organizationRow,
                          organizationInvite>>
     ELSE /\ organizationUser' = organizationUser \cup
               {Membership(invite.organizationId, userId,
                           Cardinality(rows), invite.role)}
          /\ organizationInvite' =
               {IF i.id = invite.id
                THEN [i EXCEPT !.acceptedBy = userId, !.acceptedAt = now]
                ELSE i : i \in organizationInvite}
          /\ Finish(r, "OK")
          /\ UNCHANGED <<organization, organizationRow>>

\* invites.resend, second statement: UPDATE organization_invite SET
\* expiresAt WHERE id = input.inviteId, then the organization is read again
\* and the mail is sent
invitesResendUpdate(r) ==
  /\ organizationInvite' =
       {IF i.id = rpc[r].input.inviteId
        THEN [i EXCEPT !.expiresAt = now + InviteTtl]
        ELSE i : i \in organizationInvite}
  /\ Finish(r, IF rpc[r].organizationId \in organization THEN "OK"
               ELSE "INTERNAL_SERVER_ERROR")
  /\ UNCHANGED <<organization, organizationUser, organizationRow>>

RpcWrite(r) ==
  /\ rpc[r].pc = "write"
  /\ CASE rpc[r].proc = "membersUpdateRole" -> membersUpdateRole(r)
       [] rpc[r].proc = "membersRemove" -> membersRemove(r)
       [] rpc[r].proc = "createOrganization" -> createUserWithOrganization(r)
       [] rpc[r].proc = "cancelSubscription" -> cancelSubscriptionUpdate(r)
       [] rpc[r].proc = "completeInviteAcceptance" ->
            completeInviteAcceptanceCommit(r)
       [] rpc[r].proc = "invitesResend" -> invitesResendUpdate(r)
  /\ UNCHANGED <<apiKey, now, http, served, hooks>>

\* the response is delivered; the slot takes the next request
RpcReturn(r) ==
  /\ rpc[r].pc = "done"
  /\ rpc' = [rpc EXCEPT ![r] = IdleRpc]
  /\ UNCHANGED <<db, now, http, served, hooks>>

\* ------------------------------------------------- organization helpers
roleHierarchy == [viewer |-> 0, member |-> 1, admin |-> 2, owner |-> 3]

\* hasOrganizationAccess: the values it can return. The filter is written
\* `eq(userId, ...) && eq(organizationId, ...)`; both operands are objects,
\* so the expression is its second operand and the SELECT returns the rows
\* of the organization. `const [membership]` is the first of them, any one
\* since the statement has no ORDER BY.
hasOrganizationAccess(userId, orgId, minRole) ==
  LET rows == {m \in organizationUser : m.organizationId = orgId}
  IN IF rows = {} THEN {FALSE}
     ELSE {roleHierarchy[m.role] >= roleHierarchy[minRole] : m \in rows}

\* a call of hasOrganizationAccess and its return value
CallHasOrganizationAccess(r) ==
  /\ rpc[r].pc = "idle"
  /\ \E userId \in Users, orgId \in OrgIds \cup {"tX"}, minRole \in Roles :
       \E access \in hasOrganizationAccess(userId, orgId, minRole) :
         rpc' = [rpc EXCEPT ![r] =
                   [IdleRpc EXCEPT
                      !.pc = "done", !.proc = "hasOrganizationAccess",
                      !.input = [NoInput EXCEPT !.userId = userId,
                                                !.role = minRole],
                      !.organizationId = orgId,
                      !.result = IF access THEN "true" ELSE "false"]]
  /\ UNCHANGED <<db, now, http, served, hooks>>

\* --------------------------------------------------- API-key middleware
\* Authorization header: the scheme before the first space, and the rest;
\* <<>> is the empty string
AuthHeaders ==
  {[scheme |-> "absent", key |-> <<>>],
   [scheme |-> "Basic", key |-> FullKey(0)],
   [scheme |-> "Bearer", key |-> <<>>]}
  \cup {[scheme |-> "Bearer", key |-> FullKey(n)] : n \in 0..(MaxKeys + 1)}

Response(status, error, message) ==
  [status |-> status, error |-> error, message |-> message,
   organizationId |-> "null"]
NoResponse == Response(0, "", "")
KeyRequired ==
  Response(401, "Unauthorized",
           "API key required. Use 'Authorization: Bearer <api_key>' header.")
KeyEmpty == Response(401, "Unauthorized", "API key cannot be empty.")
KeyInvalid == Response(401, "Unauthorized", "Invalid API key.")
KeyExpired == Response(401, "Unauthorized", "API key has expired.")
TooManyRequests ==
  Response(429, "Too many requests",
           "Rate limit exceeded. Maximum 10 requests per 5m.")
StatsOk(orgId) == [Response(200, "", "") EXCEPT !.organizationId = orgId]

IdleHttp == [pc |-> "idle", authHeader |-> [scheme |-> "absent", key |-> <<>>],
             foundKey |-> {}, apiKey |-> {}, resp |-> NoResponse]

\* the SELECT of requireApiKey: hash, active flag and revocation
FindKeyAnyStatus(hashedKey) ==
  {k \in apiKey : k.keyHash = hashedKey}

FindKey(hashedKey) ==
  {k \in apiKey : k.keyHash = hashedKey /\ k.isActive = "true"
                  /\ k.revokedAt = NullTime}

RECURSIVE SumServed(_)
SumServed(keys) ==
  IF keys = {} THEN 0
  ELSE LET k == CHOOSE x \in keys : TRUE
       IN served[k] + SumServed(keys \ {k})

\* requests of the current window that were let through or are under way
Issued ==
  Cardinality({r \in HttpIds : http[r].pc \in {"found", "handler"}})
  + SumServed(KeyIds)

\* the request arrives: header checks, hash, and the SELECT ... LIMIT 1
HttpLookup(r, headers, budget) ==
  /\ http[r].pc = "idle"
  /\ Issued < budget
  /\ \E h \in headers :
       IF h.scheme # "Bearer"
       THEN http' = [http EXCEPT ![r] =
                       [IdleHttp EXCEPT !.pc = "done", !.authHeader = h,
                                        !.resp = KeyRequired]]
       ELSE IF h.key = <<>>
       THEN http' = [http EXCEPT ![r] =
                       [IdleHttp EXCEPT !.pc = "done", !.authHeader = h,
                                        !.resp = KeyEmpty]]
       ELSE IF FindKey(sha256Hex(h.key)) = {}
       THEN http' = [http EXCEPT ![r] =
                       [IdleHttp EXCEPT !.pc = "done", !.authHeader = h,
                                        !.resp = KeyInvalid]]
       ELSE \E k \in FindKey(sha256Hex(h.key)) :
              http' = [http EXCEPT ![r] =
                         [IdleHttp EXCEPT !.pc = "found", !.authHeader = h,
                                          !.foundKey = {k}]]
  /\ UNCHANGED <<db, now, rpc, served, hooks>>

\* hono-rate-limiter: rateLimiter(config) without a `store` option builds
\* its own MemoryStore, with no hits recorded
rateLimiter(config) ==
  [windowMs |-> parseWindow(config.window), limit |-> config.requests,
   hits |-> [k \in {} |-> 0]]

\* store.increment(key): the hits of the key after this one
totalHits(limiter, key) ==
  IF key \in DOMAIN limiter.hits THEN limiter.hits[key] + 1 ELSE 1

\* after the SELECT: expiry check, c.set("apiKey"), then a limiter built
\* for this request counts it and calls next() or the 429 handler
HttpProceedCountFirst(r) ==
  /\ http[r].pc = "found"
  /\ LET foundKey == CHOOSE k \in http[r].foundKey : TRUE
         limiter == rateLimiter(StatsRateLimit)
     IN /\ served' = [served EXCEPT ![foundKey.id] = @ + 1]
        /\ IF foundKey.expiresAt # NullTime /\ foundKey.expiresAt < now
           THEN http' = [http EXCEPT ![r].pc = "done", ![r].resp = KeyExpired]
           ELSE IF totalHits(limiter, foundKey.id) > limiter.limit
           THEN http' = [http EXCEPT
                           ![r].pc = "done", ![r].resp = TooManyRequests,
                           ![r].apiKey =
                             {[organizationId |-> foundKey.organizationId,
                               apiKeyId |-> foundKey.id]}]
           ELSE http' = [http EXCEPT
                           ![r].pc = "handler",
                           ![r].apiKey =
                             {[organizationId |-> foundKey.organizationId,
                               apiKeyId |-> foundKey.id]}]
  /\ UNCHANGED <<db, now, rpc, hooks>>

HttpProceed(r) ==
  /\ http[r].pc = "found"
  /\ LET foundKey == CHOOSE k \in http[r].foundKey : TRUE
         limiter == rateLimiter(StatsRateLimit)
     IN IF foundKey.expiresAt # NullTime /\ foundKey.expiresAt < now
        THEN /\ http' = [http EXCEPT ![r].pc = "done", ![r].resp = KeyExpired]
             /\ UNCHANGED served
        ELSE IF totalHits(limiter, foundKey.id) > limiter.limit
        THEN /\ http' = [http EXCEPT
                           ![r].pc = "done", ![r].resp = TooManyRequests,
                           ![r].apiKey =
                             {[organizationId |-> foundKey.organizationId,
                               apiKeyId |-> foundKey.id]}]
             /\ UNCHANGED served
        ELSE /\ http' = [http EXCEPT
                           ![r].pc = "handler",
                           ![r].apiKey =
                             {[organizationId |-> foundKey.organizationId,
                               apiKeyId |-> foundKey.id]}]
             /\ served' = [served EXCEPT ![foundKey.id] = @ + 1]
  /\ UNCHANGED <<db, now, rpc, hooks>>

\* the /stats handler answers with the organization of the key context
HttpHandler(r) ==
  /\ http[r].pc = "handler"
  /\ LET ctx == CHOOSE c \in http[r].apiKey : TRUE
     IN http' = [http EXCEPT ![r].pc = "done",
                             ![r].resp = StatsOk(ctx.organizationId)]
  /\ UNCHANGED <<db, now, rpc, served, hooks>>

HttpReturn(r) ==
  /\ http[r].pc = "done"
  /\ http' = [http EXCEPT ![r] = IdleHttp]
  /\ UNCHANGED <<db, now, rpc, served, hooks>>

\* the clock advances; a new window starts a new count of served requests
Tick ==
  /\ now < MaxTicks * TickMs
  /\ now' = now + TickMs
  /\ served' = IF WindowOf(now') # WindowOf(now) THEN [k \in KeyIds |-> 0]
               ELSE served
  /\ UNCHANGED <<db, rpc, http, hooks>>

\* ------------------------------------------------------ billing provider
\* Stripe holds one subscription, bought for tenant t1 through
\* createCheckoutSession, which puts orgId into the metadata of the session
\* and of the subscription. Event n of `events` carries id n.
NoSubscription == [status |-> "none", events |-> <<>>]

StripeEvent(type, status) ==
  [id |-> Len(stripe.events) + 1, type |-> type, orgId |-> "t1",
   customer |-> "cus_1", subscription |-> "sub_1", status |-> status,
   priceId |-> "price_basic"]

Send(event, status) ==
  /\ Len(stripe.events) < MaxEvents
  /\ stripe' = [status |-> status, events |-> Append(stripe.events, event)]
  /\ UNCHANGED <<db, now, rpc, http, served, webhookEvent, hook>>

\* the customer pays: the subscription starts
StripeCheckout ==
  /\ stripe.status = "none"
  /\ Send(StripeEvent("checkout.session.completed", "null"), "active")

\* a payment fails or recovers, or the subscription is edited
StripeSubscriptionUpdated ==
  /\ stripe.status \in {"active", "past_due"}
  /\ \E st \in {"active", "past_due"} :
       Send(StripeEvent("customer.subscription.updated", st), st)

\* the subscription ends
StripeSubscriptionDeleted ==
  /\ stripe.status \in {"active", "past_due"}
  /\ Send(StripeEvent("customer.subscription.deleted", "canceled"),
          "canceled")

\* events whose handlers write nothing: the invoices of the subscription,
\* and a type the switch does not list
InvoiceEventTypes == {"invoice.payment_succeeded", "invoice.payment_failed"}
OtherEventTypes == InvoiceEventTypes \cup {"customer.created"}

StripeOther ==
  \E type \in OtherEventTypes :
    /\ type \in InvoiceEventTypes => stripe.status # "none"
    /\ Send(StripeEvent(type, "null"), stripe.status)

\* price ids a subscription item can carry: those of the basic and the pro
\* plan, and one no plan of PLANS has
Prices == {"price_basic", "price_pro", "price_legacy"}

\* metadata.orgId of a session or subscription: createCheckoutSession sets
\* it; one made outside the application has none
Correlators == {"null", "t1"}

StripePayload(type, status, orgId, priceId) ==
  [StripeEvent(type, status) EXCEPT !.orgId = orgId, !.priceId = priceId]

\* the customer pays for a subscription of any price
StripeCheckoutAny ==
  /\ stripe.status = "none"
  /\ Len(stripe.events) < MaxPayloads
  /\ \E orgId \in Correlators, priceId \in Prices :
       Send(StripePayload("checkout.session.completed", "null", orgId,
                          priceId), "active")

\* the subscription changes its status or its price
StripeSubscriptionEdited ==
  /\ stripe.status \in {"active", "past_due"}
  /\ Len(stripe.events) < MaxPayloads
  /\ \E orgId \in Correlators, priceId \in Prices,
        st \in {"active", "past_due"} :
       Send(StripePayload("customer.subscription.updated", st, orgId,
                          priceId), st)

\* the price of the subscription's item: that of the last event sent
SubscriptionPrice ==
  IF stripe.events = <<>> THEN "price_basic"
  ELSE stripe.events[Len(stripe.events)].priceId

\* StripeService.getSubscription: the subscription as it is now
getSubscription(subscriptionId) ==
  [id |-> subscriptionId, status |-> stripe.status,
   priceId |-> SubscriptionPrice]

\* ------------------------------------------------------ webhook endpoint
\* a payload signed by somebody else
ForgedEvent ==
  [id |-> 0, type |-> "checkout.session.completed", orgId |-> "t1",
   customer |-> "cus_1", subscription |-> "sub_1", status |-> "null",
   priceId |-> "price_basic"]

Signatures == {"absent", "forged", "valid"}

\* stripe.webhooks.constructEvent: the event of the payload, {} when it throws
constructWebhookEventUnsigned(payload, signature) == {payload}

constructWebhookEvent(payload, signature) ==
  IF signature = "valid" THEN {payload} ELSE {}

NoUpdate == [stripeCustomerId |-> "keep", stripeSubscriptionId |-> "keep",
             subscriptionStatus |-> "keep", planTier |-> "keep"]

IdleHook == [pc |-> "idle", signature |-> "absent", body |-> ForgedEvent,
             event |-> {}, recorded |-> FALSE, applied |-> FALSE,
             org |-> "null", set |-> NoUpdate, error |-> "null",
             status |-> 0]

EventOf(d) == CHOOSE e \in hook[d].event : TRUE

\* c.json(..., 400) of the endpoint, c.json({received: true}) otherwise
Respond(d, status) ==
  hook' = [hook EXCEPT ![d].pc = "done", ![d].status = status]

\* POST /api/stripe/webhook up to the call of handleStripeWebhook
HookReceive(d) ==
  /\ hook[d].pc = "idle"
  /\ \E signature \in Signatures :
       \E payload \in (IF signature = "valid"
                       THEN {stripe.events[i] : i \in DOMAIN stripe.events}
                       ELSE {ForgedEvent}) :
         IF signature = "absent"
         THEN hook' = [hook EXCEPT ![d] =
                         [IdleHook EXCEPT !.pc = "done", !.body = payload,
                                          !.status = 400]]
         ELSE IF constructWebhookEvent(payload, signature) = {}
         THEN hook' = [hook EXCEPT ![d] =
                         [IdleHook EXCEPT !.pc = "done", !.body = payload,
                                          !.signature = signature,
                                          !.status = 400]]
         ELSE hook' = [hook EXCEPT ![d] =
                         [IdleHook EXCEPT
                            !.pc = "select", !.body = payload,
                            !.signature = signature,
                            !.event =
                              constructWebhookEvent(payload, signature)]]
  /\ UNCHANGED <<db, now, rpc, http, served, webhookEvent, stripe>>

\* handleStripeWebhook: SELECT ... WHERE event_id, return when a row exists
HookSelect(d) ==
  /\ hook[d].pc = "select"
  /\ IF \E w \in webhookEvent : w.eventId = EventOf(d).id
     THEN Respond(d, 200)
     ELSE hook' = [hook EXCEPT ![d].pc = "insert"]
  /\ UNCHANGED <<db, now, rpc, http, served, webhookEvent, stripe>>

\* INSERT INTO webhook_event; webhook_event_event_id_unique makes a second
\* row of the event id fail, and the insert is outside the try block
HookInsert(d) ==
  /\ hook[d].pc = "insert"
  /\ IF \E w \in webhookEvent : w.eventId = EventOf(d).id
     THEN /\ Respond(d, 400)
          /\ UNCHANGED webhookEvent
     ELSE /\ webhookEvent' = webhookEvent \cup
               {[eventId |-> EventOf(d).id, eventType |-> EventOf(d).type,
                 error |-> "null", retryCount |-> <<"0">>]}
          /\ hook' = [hook EXCEPT ![d].pc = "process", ![d].recorded = TRUE]
  /\ UNCHANGED <<db, now, rpc, http, served, stripe>>

Throw(d, message) ==
  hook' = [hook EXCEPT ![d].pc = "catch", ![d].error = message]

Prepare(d, t, set) ==
  hook' = [hook EXCEPT ![d].pc = "update", ![d].org = t, ![d].set = set]

\* handleCheckoutCompleted up to the UPDATE
handleCheckoutCompletedLenient(d) ==
  LET session == EventOf(d)
      subscription == getSubscription(session.subscription)
      planInfo == getPlanByPriceId(subscription.priceId)
  IN /\ IF session.orgId = "null" \/ session.subscription = "null"
           \/ planInfo = {}
        THEN Respond(d, 200)
        ELSE \E planId \in planInfo :
               Prepare(d, session.orgId,
                       [stripeCustomerId |-> session.customer,
                        stripeSubscriptionId |-> subscription.id,
                        subscriptionStatus |-> subscription.status,
                        planTier |-> planId])
     /\ UNCHANGED organizationRow

handleCheckoutCompleted(d) ==
  LET session == EventOf(d)
      subscription == getSubscription(session.subscription)
      planInfo == getPlanByPriceId(subscription.priceId)
  IN /\ IF session.orgId = "null"
        THEN Throw(d, "No orgId in checkout session metadata")
        ELSE IF session.subscription = "null"
        THEN Throw(d, "No subscription in checkout session")
        ELSE IF planInfo = {}
        THEN Throw(d, "Unknown price ID")
        ELSE \E planId \in planInfo :
               Prepare(d, session.orgId,
                       [stripeCustomerId |-> session.customer,
                        stripeSubscriptionId |-> subscription.id,
                        subscriptionStatus |-> subscription.status,
                        planTier |-> planId])
     /\ UNCHANGED organizationRow

\* handleSubscriptionUpdated: by metadata.orgId in one UPDATE, else by the
\* subscription id in a SELECT and an UPDATE
handleSubscriptionUpdated(d) ==
  LET subscription == EventOf(d)
      planInfo == getPlanByPriceId(subscription.priceId)
      planTier == IF planInfo = {} THEN "keep"
                  ELSE CHOOSE planId \in planInfo : TRUE
  IN IF subscription.orgId = "null"
     THEN /\ IF OrgsOfSubscription(subscription.subscription) = {}
             THEN Throw(d, "Cannot find organization for subscription")
             ELSE \E t \in OrgsOfSubscription(subscription.subscription) :
                    Prepare(d, t, [NoUpdate EXCEPT
                                     !.subscriptionStatus =
                                        subscription.status])
          /\ UNCHANGED organizationRow
     ELSE IF subscription.orgId \in organization
     THEN /\ organizationRow' =
               UpdateOrganization(subscription.orgId,
                 [NoUpdate EXCEPT !.subscriptionStatus = subscription.status,
                                  !.planTier = planTier])
          /\ hook' = [hook EXCEPT ![d].pc = "done", ![d].status = 200,
                                  ![d].applied = TRUE]
     ELSE /\ Respond(d, 200)
          /\ UNCHANGED organizationRow

\* handleSubscriptionDeleted up to the UPDATE
handleSubscriptionDeleted(d) ==
  LET subscription == EventOf(d)
  IN /\ IF OrgsOfSubscription(subscription.subscription) = {}
        THEN Throw(d, "Cannot find organization for deleted subscription")
        ELSE \E t \in OrgsOfSubscription(subscription.subscription) :
               Prepare(d, t, [NoUpdate EXCEPT
                                !.planTier = "free",
                                !.subscriptionStatus = "canceled",
                                !.stripeSubscriptionId = "null"])
     /\ UNCHANGED organizationRow

\* the switch of handleStripeWebhook: the first statement of the handler
HookProcess(d) ==
  /\ hook[d].pc = "process"
  /\ CASE EventOf(d).type = "checkout.session.completed" ->
            handleCheckoutCompleted(d)
       [] EventOf(d).type = "customer.subscription.updated" ->
            handleSubscriptionUpdated(d)
       [] EventOf(d).type = "customer.subscription.deleted" ->
            handleSubscriptionDeleted(d)
       [] OTHER -> Respond(d, 200) /\ UNCHANGED organizationRow
  /\ UNCHANGED <<organization, organizationUser, apiKey, organizationInvite,
                  now, rpc, http, served, webhookEvent, stripe>>

\* the UPDATE organization of a handler; handleCheckoutCompleted throws
\* when it returns no row
HookUpdate(d) ==
  /\ hook[d].pc = "update"
  /\ IF hook[d].org \in organization
     THEN /\ organizationRow' = UpdateOrganization(hook[d].org, hook[d].set)
          /\ hook' = [hook EXCEPT ![d].pc = "done", ![d].status = 200,
                                  ![d].applied = TRUE]
     ELSE /\ IF EventOf(d).type = "checkout.session.completed"
             THEN Throw(d, "Organization not found")
             ELSE Respond(d, 200)
          /\ UNCHANGED organizationRow
  /\ UNCHANGED <<organization, organizationUser, apiKey, organizationInvite,
                  now, rpc, http, served, webhookEvent, stripe>>

\* the catch block: the error goes onto the event's row with retryCount "1",
\* the error is thrown again and the endpoint answers 400
HookCatchNoRetryCount(d) ==
  /\ hook[d].pc = "catch"
  /\ webhookEvent' =
       {IF w.eventId = EventOf(d).id
        THEN [w EXCEPT !.error = hook[d].error]
        ELSE w : w \in webhookEvent}
  /\ Respond(d, 400)
  /\ UNCHANGED <<db, now, rpc, http, served, stripe>>

HookCatch(d) ==
  /\ hook[d].pc = "catch"
  /\ webhookEvent' =
       {IF w.eventId = EventOf(d).id
        THEN [w EXCEPT !.error = hook[d].error, !.retryCount = <<"1">>]
        ELSE w : w \in webhookEvent}
  /\ Respond(d, 400)
  /\ UNCHANGED <<db, now, rpc, http, served, stripe>>

HookReturn(d) ==
  /\ hook[d].pc = "done"
  /\ hook' = [hook EXCEPT ![d] = IdleHook]
  /\ UNCHANGED <<db, now, rpc, http, served, webhookEvent, stripe>>

\* ------------------------------------------- specification: guard chain
\* the slugs of the two tenants
Slug == [t1 |-> "acme", t2 |-> "beta"]

\* no invite sent, no event received, no subscription bought
InitRows ==
  /\ organizationRow = [t \in OrgIds |-> NewOrganization(Slug[t])]
  /\ organizationInvite = {}

InitHooks ==
  /\ webhookEvent = {}
  /\ hook = [d \in HookIds |-> IdleHook]
  /\ stripe = NoSubscription

\* every tenant was created with its owner (createUserWithOrganization);
\* the other user holds any role in it, or none
InitAuthz ==
  /\ organization = OrgIds
  /\ \E r12, r21 \in (Roles \ {"owner"}) \cup {"none"} :
       organizationUser =
         {Membership("t1", "u1", 0, "owner"), Membership("t2", "u2", 0, "owner")}
         \cup (IF r12 = "none" THEN {} ELSE {Membership("t1", "u2", 0, r12)})
         \cup (IF r21 = "none" THEN {} ELSE {Membership("t2", "u1", 0, r21)})
  /\ apiKey = {}
  /\ now = 0
  /\ rpc = [r \in RpcIds |-> IdleRpc]
  /\ http = [h \in HttpIds |-> IdleHttp]
  /\ served = [k \in KeyIds |-> 0]
  /\ InitRows
  /\ InitHooks

AuthzProcs == {"healthCheck", "me", "membersList", "membersUpdateRole",
               "membersRemove", "deleteOrganization"}

\* the calls that change memberships, made by signed-in users beside "a"
MutatorProcs == {"membersUpdateRole", "membersRemove", "deleteOrganization"}

NextAuthz ==
  \/ RpcCreateContext("a", AuthzProcs, Sessions, OrgHeaders)
  \/ RpcCreateContext("b", MutatorProcs, Users, OrgIds)
  \/ \E r \in RpcIds :
       \/ RpcCall(r)
       \/ RpcWrite(r)
       \/ RpcReturn(r)

SpecAuthz == InitAuthz /\ [][NextAuthz]_vars

\* ------------------------------------------------- claims: guard chain
\* the role hierarchy viewer < member < admin < owner, and the minimum
\* role of each tenant-scoped guard level
RoleOrd == [viewer |-> 0, member |-> 1, admin |-> 2, owner |-> 3]
MinOrd == [org |-> 0, admin |-> 2, owner |-> 3]
TenantLevels == {"org", "admin", "owner"}

HasSelector(q) == q.organizationId \notin {NoHeader, ""}
Guarded(q) == q.pc \in {"write", "done"} /\ ProcLevel[q.proc] \in TenantLevels
MemberRoles(u, t) ==
  {m.role : m \in {n \in organizationUser :
                     n.userId = u /\ n.organizationId = t}}

\* a request whose context is resolved in this step
Resolves(r) == rpc[r].pc = "idle" /\ rpc'[r].pc = "guard"

\* C1: an authenticated request with the tenant selector whose membership
\* has role R is admitted by guard level L exactly when
\* ordinal(R) >= ordinal(L); R is the role stored for (principal, tenant)
\* when the context is resolved.
C1_Admitted ==
  \A r \in RpcIds :
    (Guarded(rpc[r]) /\ rpc[r].session # NoSession /\ HasSelector(rpc[r])
       /\ rpc[r].organizationAccess # {})
    => (rpc[r].bodyRan
          <=> RoleOrd[RoleOf(rpc[r])] >= MinOrd[ProcLevel[rpc[r].proc]])

C1_Resolved ==
  \A r \in RpcIds :
    (Resolves(r) /\ rpc'[r].session # NoSession /\ HasSelector(rpc'[r])
       /\ MemberRoles(rpc'[r].session, rpc'[r].organizationId) # {})
    => /\ rpc'[r].organizationAccess # {}
       /\ RoleOf(rpc'[r])
            \in MemberRoles(rpc'[r].session, rpc'[r].organizationId)

C1_RoleOrder == [](C1_Admitted) /\ [][C1_Resolved]_vars

C1_Witness ==
  \E r \in RpcIds :
    /\ rpc[r].pc = "done" /\ ProcLevel[rpc[r].proc] = "admin"
    /\ rpc[r].organizationAccess # {} /\ RoleOf(rpc[r]) = "viewer"
    /\ rpc[r].result = "FORBIDDEN" /\ ~rpc[r].bodyRan

\* C2: when the body of a tenant-scoped operation runs, the request has a
\* principal, a tenant id, a membership in that tenant and a role at least
\* the operation's minimum; a guard failure runs no body and writes nothing.
C2_BodyContext ==
  \A r \in RpcIds :
    /\ (rpc[r].bodyRan /\ ProcLevel[rpc[r].proc] \in TenantLevels)
       => /\ rpc[r].session # NoSession
          /\ HasSelector(rpc[r])
          /\ rpc[r].organizationAccess # {}
          /\ \A a \in rpc[r].organizationAccess :
               a.organizationId = rpc[r].organizationId
          /\ RoleOrd[RoleOf(rpc[r])] >= MinOrd[ProcLevel[rpc[r].proc]]
    /\ rpc[r].result \in GuardErrors => ~rpc[r].bodyRan

C2_NoEffect ==
  \A r \in RpcIds :
    (rpc[r].pc = "guard" /\ rpc'[r].result \in GuardErrors) => UNCHANGED db

C2_GuardedBody == [](C2_BodyContext) /\ [][C2_NoEffect]_vars

C2_Witness ==
  \E r \in RpcIds :
    /\ rpc[r].pc = "done" /\ rpc[r].proc = "deleteOrganization"
    /\ rpc[r].bodyRan /\ rpc[r].result = "OK"
    /\ rpc[r].organizationId \notin organization

\* C3 as stated: a tenant-scoped request without the x-organization-id
\* header always yields BadRequest.
C3_AlwaysBadRequest ==
  \A r \in RpcIds :
    (rpc[r].pc = "done" /\ ProcLevel[rpc[r].proc] \in TenantLevels
       /\ rpc[r].organizationId = NoHeader)
    => rpc[r].result = "BAD_REQUEST"

\* C3 amended: without the header a tenant-scoped request never succeeds
\* and is never Forbidden; it yields BadRequest when the caller has a
\* session and Unauthorized when the caller has none.
C3_MissingSelector ==
  \A r \in RpcIds :
    (rpc[r].pc = "done" /\ ProcLevel[rpc[r].proc] \in TenantLevels
       /\ rpc[r].organizationId = NoHeader)
    => /\ ~rpc[r].bodyRan
       /\ rpc[r].result = (IF rpc[r].session = NoSession THEN "UNAUTHORIZED"
                           ELSE "BAD_REQUEST")

C3_Witness ==
  \E r \in RpcIds :
    /\ rpc[r].pc = "done" /\ ProcLevel[rpc[r].proc] = "owner"
    /\ rpc[r].organizationId = NoHeader
    /\ rpc[r].session # NoSession
    /\ MemberRoles(rpc[r].session, "t1") = {"owner"}
    /\ rpc[r].result = "BAD_REQUEST"

\* C4: an authenticated principal without a membership in the selected
\* tenant gets Forbidden from every tenant-scoped operation, whatever roles
\* the principal holds elsewhere and whether or not the tenant exists.
C4_Denied ==
  \A r \in RpcIds :
    (rpc[r].pc = "done" /\ ProcLevel[rpc[r].proc] \in TenantLevels
       /\ rpc[r].session # NoSession /\ HasSelector(rpc[r])
       /\ rpc[r].organizationAccess = {})
    => (rpc[r].result = "FORBIDDEN" /\ ~rpc[r].bodyRan)

C4_Unresolved ==
  \A r \in RpcIds :
    (Resolves(r) /\ rpc'[r].session # NoSession /\ HasSelector(rpc'[r])
       /\ MemberRoles(rpc'[r].session, rpc'[r].organizationId) = {})
    => (rpc'[r].organizationAccess = {} /\ rpc'[r].pc = "guard")

C4_NonMemberForbidden == [](C4_Denied) /\ [][C4_Unresolved]_vars

C4_Witness ==
  \E r \in RpcIds :
    /\ rpc[r].pc = "done" /\ ProcLevel[rpc[r].proc] = "org"
    /\ rpc[r].organizationId = "tX" /\ rpc[r].session # NoSession
    /\ \E t \in OrgIds : MemberRoles(rpc[r].session, t) = {"owner"}
    /\ rpc[r].result = "FORBIDDEN"

\* C22: the error of a request is that of the lowest level it fails: no
\* session gives Unauthorized whatever the header, a session without the
\* tenant header gives BadRequest, a header without a membership gives
\* Forbidden, then the role decides; a request failing no level runs its body.
C22_Expected(q) ==
  LET level == ProcLevel[q.proc]
  IN IF level = "public" THEN "next"
     ELSE IF q.session = NoSession THEN "UNAUTHORIZED"
     ELSE IF level = "protected" THEN "next"
     ELSE IF ~HasSelector(q) THEN "BAD_REQUEST"
     ELSE IF q.organizationAccess = {} THEN "FORBIDDEN"
     ELSE IF RoleOrd[RoleOf(q)] < MinOrd[level] THEN "FORBIDDEN"
     ELSE "next"

C22_FirstFailure ==
  \A r \in RpcIds :
    rpc[r].pc \in {"write", "done"}
    => IF C22_Expected(rpc[r]) = "next"
       THEN rpc[r].bodyRan /\ rpc[r].result \notin GuardErrors
       ELSE rpc[r].result = C22_Expected(rpc[r]) /\ ~rpc[r].bodyRan

C22_Witness ==
  \E r \in RpcIds :
    /\ rpc[r].pc = "done" /\ ProcLevel[rpc[r].proc] = "admin"
    /\ rpc[r].session = NoSession /\ rpc[r].organizationId = NoHeader
    /\ rpc[r].result = "UNAUTHORIZED" /\ ~rpc[r].bodyRan

\* --------------------------------------- specification: access helper
\* hasOrganizationAccess is called for any user, organization and minimum
\* role on the membership tables of InitAuthz
NextAccess ==
  \/ CallHasOrganizationAccess("a")
  \/ RpcReturn("a")

SpecAccess == InitAuthz /\ [][NextAccess]_vars

\* C27: hasOrganizationAccess(userId, orgId, minRole) returns true exactly
\* when userId has a membership in orgId whose role is at least minRole.
C27_MemberWithRole ==
  \A r \in RpcIds :
    (rpc[r].pc = "done" /\ rpc[r].proc = "hasOrganizationAccess")
    => (rpc[r].result = "true"
          <=> \E role \in MemberRoles(rpc[r].input.userId,
                                       rpc[r].organizationId) :
                RoleOrd[role] >= RoleOrd[rpc[r].input.role])

\* ------------------------------------------------ specification: API keys
\* one key row written under the scheme requireApiKey reads (the SHA-256
\* digest of the secret), with or without an expiry
StoredKey(expiresAt) ==
  [id |-> 0, organizationId |-> "t1", keyHash |-> sha256Hex(FullKey(0)),
   isActive |-> "true", expiresAt |-> expiresAt, revokedAt |-> NullTime,
   lastUsedAt |-> NullTime]

InitKeyTables(expiries) ==
  /\ organization = OrgIds
  /\ organizationUser =
       {Membership("t1", "u1", 0, "owner"), Membership("t1", "u2", 0, "member"),
        Membership("t2", "u2", 0, "owner")}
  /\ \E e \in expiries : apiKey = {StoredKey(e)}
  /\ now = 0
  /\ rpc = [r \in RpcIds |-> IdleRpc]
  /\ http = [h \in HttpIds |-> IdleHttp]
  /\ served = [k \in KeyIds |-> 0]
  /\ InitRows
  /\ InitHooks

InitKey == InitKeyTables(ExpiresAtInputs)

KeyProcs == {"apiKeysCreate", "apiKeysRevoke"}

\* u1, owner of t1 and a stranger to t2, manages keys while a client calls
NextKey ==
  \/ RpcCreateContext("a", KeyProcs, {"u1"}, OrgIds)
  \/ RpcCall("a")
  \/ RpcReturn("a")
  \/ HttpLookup("x", AuthHeaders, MaxKeyRequests)
  \/ HttpProceed("x")
  \/ HttpHandler("x")
  \/ HttpReturn("x")
  \/ Tick

SpecKey == InitKey /\ [][NextKey]_vars

\* ----------------------------------------------- specification: rate limit
\* clients of one valid key call /stats, alone or two at a time
InitRate == InitKeyTables({NullTime})

RateHeaders == {[scheme |-> "Bearer", key |-> FullKey(0)]}

NextRate ==
  \/ \E r \in HttpIds :
       \/ HttpLookup(r, RateHeaders, MaxRateRequests)
       \/ HttpProceed(r)
       \/ HttpHandler(r)
       \/ HttpReturn(r)
  \/ Tick

SpecRate == InitRate /\ [][NextRate]_vars

\* ------------------------------------- specification: rejected API keys
\* two clients present the stored key or a secret nobody was given, while
\* the owner revokes the stored key and the clock passes its expiry
RejectHeaders ==
  {[scheme |-> "Bearer", key |-> FullKey(0)],
   [scheme |-> "Bearer", key |-> FullKey(MaxKeys + 1)]}

NextReject ==
  \/ RpcCreateContext("a", {"apiKeysRevoke"}, {"u1"}, {"t1"})
  \/ RpcCall("a")
  \/ RpcReturn("a")
  \/ \E r \in HttpIds :
       \/ HttpLookup(r, RejectHeaders, MaxKeyRequests)
       \/ HttpProceed(r)
       \/ HttpHandler(r)
       \/ HttpReturn(r)
  \/ Tick

SpecReject == InitKey /\ [][NextReject]_vars

\* ---------------------------------------------------- claims: API keys
DeadStatus(k) == k.isActive # "true" \/ k.revokedAt # NullTime
Expired(k, t) == k.expiresAt # NullTime /\ k.expiresAt < t
\* the rows whose stored digest was computed from this secret
SecretRows(key) == {k \in apiKey : k.keyHash[Len(k.keyHash)] = key}
Arrives(r) == http[r].pc = "idle" /\ http'[r].pc # "idle"
Rejected(q) == q.pc = "done" /\ q.resp.status = 401 /\ q.apiKey = {}

\* C5: a request that presents the secret of a key that is inactive,
\* revoked or past its expiry when the request arrives is answered 401
\* without a key context and without running the handler; so is every
\* request that arrives after revoke has committed.
C5_Lookup ==
  \A r \in HttpIds :
    (Arrives(r) /\ http'[r].authHeader.scheme = "Bearer"
       /\ SecretRows(http'[r].authHeader.key) # {}
       /\ \A k \in SecretRows(http'[r].authHeader.key) :
            DeadStatus(k) \/ Expired(k, now))
    => \/ Rejected(http'[r])
       \/ /\ http'[r].pc = "found" /\ http'[r].apiKey = {}
          /\ \A k \in http'[r].foundKey : Expired(k, now)

C5_Proceed ==
  \A r \in HttpIds :
    (http[r].pc = "found" /\ http'[r].pc # "found"
       /\ \A k \in http[r].foundKey : Expired(k, now))
    => Rejected(http'[r])

C5_DeadKeyRejected == [][C5_Lookup /\ C5_Proceed]_vars

C5_Witness ==
  \E r \in HttpIds :
    /\ Rejected(http[r])
    /\ http[r].authHeader = [scheme |-> "Bearer", key |-> FullKey(0)]
    /\ \E k \in apiKey : k.id = 0 /\ k.isActive = "false"
                         /\ k.revokedAt # NullTime

\* C6: two requests that present a non-empty bearer secret and are both
\* rejected (unknown, inactive, revoked or expired key) get the same
\* status and body.
PresentsSecret(q) == q.authHeader.scheme = "Bearer" /\ q.authHeader.key # <<>>

C7_Lookup ==
  \A r \in HttpIds :
    (Arrives(r) /\ http'[r].authHeader.scheme = "Bearer"
       /\ \E k \in SecretRows(http'[r].authHeader.key) :
            k.id # 0 /\ ~DeadStatus(k) /\ ~Expired(k, now))
    => /\ http'[r].pc = "found"
       /\ \A k \in http'[r].foundKey :
            k \in SecretRows(http'[r].authHeader.key)

C7_CreatedKeyAuthenticates == [][C7_Lookup]_vars

C25_Uncounted ==
  \A r \in HttpIds :
    (http[r].pc # "done" /\ http'[r].pc = "done"
       /\ http'[r].resp.status = 401)
    => UNCHANGED served

C25_NoContext ==
  \A r \in HttpIds : http[r].resp.status = 401 => http[r].apiKey = {}

C25_AfterAuthentication == [](C25_NoContext) /\ [][C25_Uncounted]_vars

C25_Witness ==
  \E r \in HttpIds :
    /\ http[r].pc = "done" /\ http[r].resp = KeyExpired
    /\ served[0] = 1

InitHook ==
  /\ organization = OrgIds
  /\ organizationUser =
       {Membership("t1", "u1", 0, "owner"), Membership("t2", "u2", 0, "owner")}
  /\ apiKey = {}
  /\ now = 0
  /\ rpc = [r \in RpcIds |-> IdleRpc]
  /\ http = [h \in HttpIds |-> IdleHttp]
  /\ served = [k \in KeyIds |-> 0]
  /\ InitRows
  /\ InitHooks

NextHook ==
  \/ StripeCheckout
  \/ StripeSubscriptionUpdated
  \/ StripeSubscriptionDeleted
  \/ StripeOther
  \/ \E d \in HookIds :
       \/ HookReceive(d)
       \/ HookSelect(d)
       \/ HookInsert(d)
       \/ HookProcess(d)
       \/ HookUpdate(d)
       \/ HookCatch(d)
       \/ HookReturn(d)

SpecHook == InitHook /\ [][NextHook]_vars

\* ------------------------------------------------- specification: billing
\* the owner of t1 edits the organization or cancels the subscription
\* while the provider's events come in one at a time
BillingProcs == {"updateOrganization", "cancelSubscription"}

NextBilling ==
  \/ StripeCheckout
  \/ StripeSubscriptionUpdated
  \/ StripeSubscriptionDeleted
  \/ StripeOther
  \/ HookReceive("p")
  \/ HookSelect("p")
  \/ HookInsert("p")
  \/ HookProcess("p")
  \/ HookUpdate("p")
  \/ HookCatch("p")
  \/ HookReturn("p")
  \/ RpcCreateContext("a", BillingProcs, {"u1"}, {"t1"})
  \/ RpcCall("a")
  \/ RpcWrite("a")
  \/ RpcReturn("a")

SpecBilling == InitHook /\ [][NextBilling]_vars

\* ------------------------------------------------------ claims: webhooks
\* the event types whose handler updates the tenant
TenantEventTypes ==
  {"checkout.session.completed", "customer.subscription.updated",
   "customer.subscription.deleted"}

\* a delivery that passed the signature check and was answered
Delivered(d) == hook[d].pc = "done" /\ hook[d].event # {}

Recorded(e) == \E w \in webhookEvent : w.eventId = e.id

\* C11: of two completed deliveries of one event whose type updates the
\* tenant, exactly one ran the tenant update.
C11_ExactlyOnce ==
  \A d1, d2 \in HookIds :
    (d1 # d2 /\ Delivered(d1) /\ Delivered(d2)
       /\ hook[d1].event = hook[d2].event
       /\ EventOf(d1).type \in TenantEventTypes)
    => (hook[d1].applied # hook[d2].applied)

\* C12: a delivery of an event that did not write the event's record,
\* because the record was there at the SELECT or at the INSERT, is
\* answered 200.
C12_DuplicateOk ==
  \A d \in HookIds :
    (Delivered(d) /\ ~hook[d].recorded) => hook[d].status = 200

\* C13: when the provider sent checkout-completed and then
\* subscription-deleted for tenant t1, and both events are recorded and no
\* delivery is under way, t1 is canceled, on the free tier and without a
\* subscription id.
C13_CanceledAfterDelete ==
  (/\ Len(stripe.events) >= 2
   /\ stripe.events[1].type = "checkout.session.completed"
   /\ stripe.events[2].type = "customer.subscription.deleted"
   /\ Recorded(stripe.events[1]) /\ Recorded(stripe.events[2])
   /\ \A d \in HookIds : hook[d].pc \in {"idle", "done"})
  => /\ organizationRow["t1"].subscriptionStatus = "canceled"
     /\ organizationRow["t1"].planTier = "free"
     /\ organizationRow["t1"].stripeSubscriptionId = "null"

\* the delivery d runs a tenant update for tenant t in this step
Applies(d, t) ==
  /\ hook[d].pc \in {"process", "update"}
  /\ hook'[d].pc = "done" /\ hook'[d].applied
  /\ t = (IF hook[d].pc = "update" THEN hook[d].org ELSE EventOf(d).orgId)

\* C16: subscriptionStatus and planTier of a tenant change only in a step
\* in which a webhook delivery runs the tenant update of its event.
C16_Changed(t) ==
  \/ organizationRow'[t].subscriptionStatus
       # organizationRow[t].subscriptionStatus
  \/ organizationRow'[t].planTier # organizationRow[t].planTier

C16_OnlyWebhook ==
  [][\A t \in OrgIds :
       C16_Changed(t) => \E d \in HookIds : Applies(d, t)]_vars

\* C17: a tenant whose subscriptionStatus is canceled leaves that status
\* only in a step that processes a checkout-completed event for it.
C17_CanceledTerminal ==
  [][\A t \in OrgIds :
       (organizationRow[t].subscriptionStatus = "canceled"
          /\ organizationRow'[t].subscriptionStatus # "canceled")
       => \E d \in HookIds :
            /\ Applies(d, t)
            /\ EventOf(d).type = "checkout.session.completed"]_vars

\* C19: a webhook request without a signature or with an invalid one is
\* answered 400 in the step that receives it, no event is constructed from
\* it, and that step writes no webhook_event row and no organization column.
C19_Rejected ==
  \A d \in HookIds :
    (hook[d].pc # "idle" /\ hook[d].signature # "valid")
    => /\ hook[d].pc = "done" /\ hook[d].status = 400
       /\ hook[d].event = {} /\ ~hook[d].recorded /\ ~hook[d].applied

C19_NoWrite ==
  \A d \in HookIds :
    (hook[d].pc = "idle" /\ hook'[d].pc # "idle"
       /\ hook'[d].signature # "valid")
    => UNCHANGED <<webhookEvent, organizationRow>>

C19_BadSignature == [](C19_Rejected) /\ [][C19_NoWrite]_vars

C19_Witness ==
  \E d \in HookIds :
    /\ hook[d].pc = "done" /\ hook[d].signature = "forged"
    /\ hook[d].status = 400
    /\ ~Recorded(hook[d].body)
    /\ organizationRow["t1"] = NewOrganization(Slug["t1"])

\* C20: when the processing of a recorded event throws, the catch block
\* leaves the error message on the event's row with a retry count one
\* higher than before, and the delivery is answered outside 200..299.
C20_Catch ==
  \A d \in HookIds :
    (hook[d].pc = "catch" /\ hook'[d].pc # "catch")
    => /\ hook[d].recorded /\ hook[d].error # "null"
       /\ \E w \in webhookEvent, v \in webhookEvent' :
            /\ w.eventId = EventOf(d).id /\ v.eventId = w.eventId
            /\ v.error = hook[d].error
            /\ parseInt(v.retryCount) = parseInt(w.retryCount) + 1
       /\ hook'[d].pc = "done" /\ hook'[d].status \notin 200..299

C20_Answered ==
  \A d \in HookIds :
    (hook[d].pc = "done" /\ hook[d].error # "null")
    => hook[d].status \notin 200..299

Invite(token, t, u, role) ==
  [id |-> token, token |-> token, organizationId |-> t, email |-> email[u],
   role |-> role, expiresAt |-> InviteTtl, acceptedBy |-> "null",
   acceptedAt |-> NullTime]

\* organization_invite.role: enum admin, member, viewer
InviteRoles == {"admin", "member", "viewer"}

InitMembers ==
  /\ organization = {"t1"}
  /\ organizationUser = {Membership("t1", "u1", 0, "owner")}
  /\ apiKey = {}
  /\ now = 0
  /\ rpc = [r \in RpcIds |-> IdleRpc]
  /\ http = [h \in HttpIds |-> IdleHttp]
  /\ served = [k \in KeyIds |-> 0]
  /\ organizationRow = [t \in OrgIds |->
                          IF t = "t1" THEN NewOrganization(Slug[t])
                          ELSE NoOrganization]
  /\ \E role \in InviteRoles :
       organizationInvite = {Invite("k1", "t1", "u2", role)}
  /\ InitHooks

MemberProcs == {"createOrganization", "completeInviteAcceptance",
                "membersUpdateRole", "membersRemove"}

NextMembers ==
  \E r \in RpcIds :
    \/ RpcCreateContext(r, MemberProcs, Users, OrgIds)
    \/ RpcCall(r)
    \/ RpcWrite(r)
    \/ RpcReturn(r)

SpecMembers == InitMembers /\ [][NextMembers]_vars

\* ------------------------------------------------------- claims: members
Owners(t) == {m \in organizationUser :
                m.organizationId = t /\ m.role = "owner"}

\* C14: every existing tenant has exactly one membership with role owner;
\* updateUserRole and removeUserFromOrganization aimed at the owner's
\* membership end in an error without reaching their write, and no step
\* removes or changes an owner membership.
C14_ExactlyOne ==
  \A t \in organization : Cardinality(Owners(t)) = 1

C14_OwnerTargetRejected ==
  \A r \in RpcIds :
    (rpc[r].pc \in {"write", "done"}
       /\ rpc[r].proc \in {"membersUpdateRole", "membersRemove"}
       /\ \E m \in TargetRows(rpc[r]) : m.role = "owner")
    => (rpc[r].pc = "done" /\ rpc[r].result # "OK")

C14_OwnerKept ==
  \A m \in organizationUser : m.role = "owner" => m \in organizationUser'

C14_OneOwner ==
  [](C14_ExactlyOne /\ C14_OwnerTargetRejected) /\ [][C14_OwnerKept]_vars

C14_Witness ==
  \E r \in RpcIds :
    /\ rpc[r].pc = "done" /\ rpc[r].proc = "membersRemove"
    /\ \E m \in TargetRows(rpc[r]) : m.role = "owner"
    /\ rpc[r].result = "INTERNAL_SERVER_ERROR"
    /\ organization = OrgIds
    /\ \E m \in organizationUser : m.userId = "u2" /\ m.organizationId = "t1"

\* C15: no two membership rows share tenant and user.
C15_OneMembership ==
  \A m1, m2 \in organizationUser :
    (m1.organizationId = m2.organizationId /\ m1.userId = m2.userId)
    => m1 = m2

\* C29: a completeInviteAcceptance that succeeds, adding a membership,
\* commits on an invite of its token that is stored, not yet accepted and
\* not expired; no call succeeds after another has accepted the token.
C29_TokenUsedOnce ==
  [][\A r \in RpcIds :
       (rpc[r].pc = "write" /\ rpc[r].proc = "completeInviteAcceptance"
          /\ rpc'[r].pc = "done" /\ rpc'[r].result = "OK")
       => \E i \in organizationInvite :
            /\ i.token = rpc[r].input.token
            /\ i.acceptedAt = NullTime
            /\ i.expiresAt >= now]_vars

\* ----------------------------------------------- specification: promotion
\* u2, a member of t1, calls admin-level procedures on t1 while the owner
\* u1 changes roles in t1
PromotedProcs == {"updateOrganization", "apiKeysRevoke"}

NextPromote ==
  \/ RpcCreateContext("a", PromotedProcs, {"u2"}, {"t1"})
  \/ RpcCreateContext("b", {"membersUpdateRole"}, {"u1"}, {"t1"})
  \/ \E r \in RpcIds :
       \/ RpcCall(r)
       \/ RpcWrite(r)
       \/ RpcReturn(r)

SpecPromote == InitRate /\ [][NextPromote]_vars

\* C18: a committed updateUserRole leaves the target with the new role; a
\* request resolves its role from the memberships stored when it arrives;
\* an admin-level operation resolved with role member ends Forbidden, and
\* resolved with role admin it runs and succeeds.
C18_Commit ==
  \A r \in RpcIds :
    (rpc[r].pc = "write" /\ rpc[r].proc = "membersUpdateRole"
       /\ rpc'[r].pc = "done" /\ TargetRows(rpc[r]) # {})
    => /\ rpc'[r].result = "OK"
       /\ \A m \in organizationUser' :
            (m.userId = rpc[r].input.userId
               /\ m.organizationId = rpc[r].organizationId)
            => m.role = rpc[r].input.role

C18_Resolve ==
  \A r \in RpcIds :
    (Resolves(r) /\ rpc'[r].session # NoSession /\ HasSelector(rpc'[r]))
    => {a.role : a \in rpc'[r].organizationAccess}
         \subseteq MemberRoles(rpc'[r].session, rpc'[r].organizationId)
       /\ (MemberRoles(rpc'[r].session, rpc'[r].organizationId) # {}
             => rpc'[r].organizationAccess # {})

C18_Decision ==
  \A r \in RpcIds :
    (rpc[r].pc = "done" /\ ProcLevel[rpc[r].proc] = "admin"
       /\ rpc[r].organizationAccess # {})
    => /\ RoleOf(rpc[r]) = "member"
            => (rpc[r].result = "FORBIDDEN" /\ ~rpc[r].bodyRan)
       /\ RoleOf(rpc[r]) = "admin"
            => (rpc[r].bodyRan /\ rpc[r].result \notin GuardErrors)
       /\ (RoleOf(rpc[r]) = "admin" /\ rpc[r].proc = "updateOrganization")
            => rpc[r].result = "OK"

C18_NextRequest ==
  [](C18_Decision) /\ [][C18_Commit /\ C18_Resolve]_vars

C18_Witness ==
  /\ rpc["a"].pc = "done" /\ rpc["a"].session = "u2"
  /\ rpc["a"].organizationId = "t1"
  /\ rpc["a"].proc = "updateOrganization" /\ rpc["a"].result = "OK"
  /\ MemberRoles("u2", "t1") = {"admin"}

\* ------------------------------------------------ specification: payloads
\* one subscription whose events carry the tenant id or not, and any price;
\* the events are delivered one at a time, in any order, any number of times
NextPayload ==
  \/ StripeCheckoutAny
  \/ StripeSubscriptionEdited
  \/ HookReceive("p")
  \/ HookSelect("p")
  \/ HookInsert("p")
  \/ HookProcess("p")
  \/ HookUpdate("p")
  \/ HookCatch("p")
  \/ HookReturn("p")

SpecPayload == InitHook /\ [][NextPayload]_vars

\* ------------------------------------------------------ claims: payloads
\* C23: the tenant update of a subscription-updated event leaves the tenant
\* with the event's status, and with the plan of the event's price when the
\* price is that of a plan, whether the tenant was named by the event or
\* found by the subscription id.
C23_StatusAndTier ==
  [][\A d \in HookIds, t \in OrgIds :
       (Applies(d, t) /\ EventOf(d).type = "customer.subscription.updated")
       => /\ organizationRow'[t].subscriptionStatus = EventOf(d).status
          /\ getPlanByPriceId(EventOf(d).priceId) # {}
               => organizationRow'[t].planTier
                    \in getPlanByPriceId(EventOf(d).priceId)]_vars

\* C24: a checkout-completed event without orgId, or whose subscription
\* price is that of no plan, makes the handler throw; the delivery is
\* answered outside 200..299 and no organization column changes.
C24_Raises ==
  \A d \in HookIds :
    (/\ hook[d].pc = "process" /\ hook'[d].pc # "process"
     /\ EventOf(d).type = "checkout.session.completed"
     /\ \/ EventOf(d).orgId = "null"
        \/ getPlanByPriceId(
             getSubscription(EventOf(d).subscription).priceId) = {})
    => /\ hook'[d].pc = "catch" /\ hook'[d].error # "null"
       /\ UNCHANGED organizationRow

C24_Answered ==
  \A d \in HookIds :
    (hook[d].pc = "catch" /\ hook'[d].pc # "catch")
    => /\ hook'[d].pc = "done" /\ hook'[d].status \notin 200..299
       /\ ~hook'[d].applied
       /\ UNCHANGED organizationRow

HandlerSucceeds(e) ==
  CASE e.type = "checkout.session.completed" ->
         /\ e.orgId # "null" /\ e.subscription # "null"
         /\ getPlanByPriceId(getSubscription(e.subscription).priceId) # {}
         /\ e.orgId \in organization
    [] e.type = "customer.subscription.updated" ->
         e.orgId # "null" \/ OrgsOfSubscription(e.subscription) # {}
    [] e.type = "customer.subscription.deleted" ->
         OrgsOfSubscription(e.subscription) # {}
    [] OTHER -> TRUE

\* the processing of event e threw before: its row carries the error
Failed(e) ==
  \E w \in webhookEvent : w.eventId = e.id /\ w.error # "null"

\* C21: a delivery of an event whose processing threw before, arriving when
\* the event's handler would run to its end, is not answered as a duplicate
\* without the tenant update: it goes on to process the event.
C21_RetryProcessed ==
  [][\A d \in HookIds :
       (hook[d].pc = "select" /\ hook'[d].pc # "select"
          /\ EventOf(d).type \in TenantEventTypes
          /\ Failed(EventOf(d)) /\ HandlerSucceeds(EventOf(d)))
       => ~(hook'[d].pc = "done" /\ ~hook'[d].applied)]_vars

\* --------------------------------------------------- claims: free tier
\* C30: a tenant without a subscription id is on the free tier.
C30_FreeWithoutSubscription ==
  \A t \in organization :
    organizationRow[t].stripeSubscriptionId = "null"
    => organizationRow[t].planTier = "free"

\* -------------------------------------------- specification: isolation
\* two tenants, each with its owner, an API key and an invite that lapsed
\* before the first call, u2 being an admin of t1 as well; the two users
\* call the tenant-scoped mutations on either tenant with the ids of either
\* tenant's records
InitIsolation ==
  /\ organization = OrgIds
  /\ organizationUser =
       {Membership("t1", "u1", 0, "owner"), Membership("t1", "u2", 0, "admin"),
        Membership("t2", "u2", 0, "owner")}
  /\ apiKey = {StoredKey(NullTime),
               [StoredKey(NullTime) EXCEPT
                  !.id = 1, !.organizationId = "t2",
                  !.keyHash = sha256Hex(FullKey(1))]}
  /\ now = TickMs
  /\ rpc = [r \in RpcIds |-> IdleRpc]
  /\ http = [h \in HttpIds |-> IdleHttp]
  /\ served = [k \in KeyIds |-> 0]
  /\ organizationRow = [t \in OrgIds |-> NewOrganization(Slug[t])]
  /\ organizationInvite =
       {[Invite("k1", "t1", "u2", "member") EXCEPT !.expiresAt = 0],
        [Invite("k2", "t2", "u1", "member") EXCEPT !.expiresAt = 0]}
  /\ InitHooks

IsolatedProcs ==
  {"membersUpdateRole", "membersRemove", "apiKeysRevoke",
   "apiKeysUpdateUsage", "invitesRevoke", "invitesResend",
   "updateOrganization", "deleteOrganization"}

NextIsolation ==
  \/ RpcCreateContext("a", IsolatedProcs, Users, OrgIds)
  \/ RpcCall("a")
  \/ RpcWrite("a")
  \/ RpcReturn("a")

SpecIsolation == InitIsolation /\ [][NextIsolation]_vars

\* C28: a step of a tenant-scoped mutation resolved for tenant T leaves
\* the memberships, API keys, invites and organization rows of every other
\* tenant as they were.
C28_OtherTenantsKept ==
  [][\A r \in RpcIds :
       (rpc[r].pc \in {"guard", "write"} /\ rpc'[r] # rpc[r]
          /\ rpc[r].proc \in IsolatedProcs)
       => LET T == rpc[r].organizationId
          IN /\ {m \in organizationUser' : m.organizationId # T}
                  = {m \in organizationUser : m.organizationId # T}
             /\ {k \in apiKey' : k.organizationId # T}
                  = {k \in apiKey : k.organizationId # T}
             /\ {i \in organizationInvite' : i.organizationId # T}
                  = {i \in organizationInvite : i.organizationId # T}
             /\ organization' \ {T} = organization \ {T}
             /\ \A t \in OrgIds \ {T} :
                  organizationRow'[t] = organizationRow[t]]_vars

C28_Witness ==
  \E r \in RpcIds :
    /\ rpc[r].pc = "done" /\ rpc[r].proc = "apiKeysRevoke"
    /\ rpc[r].organizationId = "t1" /\ rpc[r].input.keyId = 1
    /\ rpc[r].bodyRan /\ rpc[r].result = "INTERNAL_SERVER_ERROR"
    /\ \E k \in apiKey : k.id = 1 /\ k.organizationId = "t2"
                         /\ k.isActive = "true"

====
